---------------------------- MODULE Spec2Model ----------------------------
(***************************************************************************)
(* Model of just-mcp (src/src/index.ts): the CallTool request handler,     *)
(* handleTool, validateRecipeName, getBaseArgs, execJust and formatResult. *)
(*                                                                         *)
(* Representation of JavaScript data                                       *)
(*   - a string is a sequence of pieces.  Strings that come from the       *)
(*     caller or from the subprocess are made of one-character pieces;     *)
(*     each literal of the source is one piece.  "" is << >>, + is \o.     *)
(*   - an untyped value of the argument bag is a record [t, v]: t is the   *)
(*     result of typeof ("undefined", "string", "number") or "array" for   *)
(*     Array.isArray, v the payload.                                       *)
(*   - an operation name is a TLA+ string.                                 *)
(***************************************************************************)
EXTENDS Integers, Sequences, FiniteSets, TLC

VARIABLES
  req,       \* req[i]: the CallTool request of slot i, [set, name, bag]
  pc,        \* pc[i]: position of the request handler of slot i
  argv,      \* argv[i]: argument vector given to spawn
  cwd,       \* cwd[i]: working directory given to spawn
  timeout,   \* timeout[i]: duration given to setTimeout
  stdout,    \* stdout[i]: closure variable of execJust
  stderr,    \* stderr[i]: closure variable of execJust
  timedOut,  \* timedOut[i]: closure variable of execJust
  timer,     \* timer[i]: "none", "pending", "fired" or "cleared"
  proc,      \* proc[i]: state of the child process
  sigterms,  \* sigterms[i]: number of SIGTERM signals delivered to the child
  outcome,   \* outcome[i]: the value the promise of execJust resolved to
  resp,      \* resp[i]: the Response returned by the request handler
  arrived,   \* arrived[i]: the 'data' events of the child so far, in arrival order
  status,    \* status[i]: the exit status the 'close' listener was called with
  pin,       \* input of the function under study (function-level specifications)
  pout       \* its result

vars == <<req, pc, argv, cwd, timeout, stdout, stderr, timedOut, timer, proc,
          sigterms, outcome, resp, arrived, status, pin, pout>>

execVars == <<req, pc, argv, cwd, timeout, stdout, stderr, timedOut, timer,
              proc, sigterms, outcome, resp, arrived, status>>

-----------------------------------------------------------------------------
(* Bounds *)

\* longest recipe name drawn as input
MaxLen == 2
\* most chunks a subprocess writes to one stream
MaxChunks == 2
\* longest args array drawn as input
MaxArgs == 2

-----------------------------------------------------------------------------
(* JavaScript values *)

Undefined == [t |-> "undefined", v |-> << >>]
Str(s) == [t |-> "string", v |-> s]
Num(n) == [t |-> "number", v |-> n]
Arr(a) == [t |-> "array", v |-> a]

\* const DEFAULT_TIMEOUT = 300000
DEFAULT_TIMEOUT == 300000

\* process.cwd() of the server
ProcessCwd == <<"<process.cwd()>">>

\* white space removed by trim
Whitespace == {" ", "\n"}

\* the characters of [a-zA-Z0-9_-] that occur in the inputs
RecipeChars == {"a", "Z", "0", "_", "-", "b", "u", "i", "l", "d", "j"}

\* String.prototype.trim
RECURSIVE TrimStart(_)
TrimStart(s) ==
  IF s = << >> THEN s
  ELSE IF Head(s) \in Whitespace THEN TrimStart(Tail(s)) ELSE s

RECURSIVE TrimEnd(_)
TrimEnd(s) ==
  IF s = << >> THEN s
  ELSE IF s[Len(s)] \in Whitespace THEN TrimEnd(SubSeq(s, 1, Len(s) - 1)) ELSE s

trim(s) == TrimEnd(TrimStart(s))

\* name.startsWith("-")
startsWithDash(s) == Len(s) > 0 /\ s[1] = "-"

\* /^[a-zA-Z0-9_-]+$/.test(name)
RecipeRegexTest(s) == Len(s) >= 1 /\ \A k \in 1..Len(s) : s[k] \in RecipeChars

-----------------------------------------------------------------------------
(* validateRecipeName *)

Returned(s) == [ok |-> TRUE, value |-> s, message |-> << >>]
Thrown(m) == [ok |-> FALSE, value |-> << >>, message |-> m]

MsgNonEmpty == <<"Recipe name must be a non-empty string">>
MsgDash == <<"Recipe name cannot start with '-'">>
MsgChars == <<"Recipe name contains invalid characters">>

validateRecipeName_NoDashCheck(name) ==
  IF name.t # "string" \/ trim(name.v) = << >> THEN Thrown(MsgNonEmpty)
  ELSE IF ~RecipeRegexTest(name.v) THEN Thrown(MsgChars)
  ELSE Returned(name.v)

validateRecipeName(name) ==
  IF name.t # "string" \/ trim(name.v) = << >> THEN Thrown(MsgNonEmpty)
  ELSE IF startsWithDash(name.v) THEN Thrown(MsgDash)
  ELSE IF ~RecipeRegexTest(name.v) THEN Thrown(MsgChars)
  ELSE Returned(name.v)

-----------------------------------------------------------------------------
(* getBaseArgs *)

\* truthiness of a value that is undefined, a string or a number
Truthy(x) ==
  CASE x.t = "string" -> x.v # << >>
    [] x.t = "number" -> x.v # 0
    [] x.t = "array" -> TRUE
    [] OTHER -> FALSE

ColorNever == <<"--color=never">>
JustfileFlag == <<"--justfile">>
ListFlag == <<"--list">>
ShowFlag == <<"--show">>

getBaseArgs_NoColor(justfile) ==
  IF Truthy(justfile) /\ justfile.t = "string"
  THEN <<JustfileFlag, justfile.v>>
  ELSE << >>

getBaseArgs(justfile) ==
  IF Truthy(justfile) /\ justfile.t = "string"
  THEN <<ColorNever, JustfileFlag, justfile.v>>
  ELSE <<ColorNever>>

-----------------------------------------------------------------------------
(* formatResult *)

Newline == "\n"
Placeholder == <<"Command completed successfully">>
ExitCodeMarker(n) == <<Newline, "[Exit code: ", ToString(n), "]">>

formatResult_AlwaysNewline(result) ==
  LET out1 == IF result.stderr # << >>
              THEN result.stdout \o <<Newline>> \o result.stderr
              ELSE result.stdout
      out2 == IF result.exitCode # 0 THEN out1 \o ExitCodeMarker(result.exitCode)
              ELSE out1
  IN IF out2 # << >> THEN out2 ELSE Placeholder

formatResult(result) ==
  LET out0 == result.stdout
      out1 == IF result.stderr # << >>
              THEN out0 \o (IF out0 # << >> THEN <<Newline>> ELSE << >>) \o result.stderr
              ELSE out0
      out2 == IF result.exitCode # 0 THEN out1 \o ExitCodeMarker(result.exitCode)
              ELSE out1
  IN IF out2 # << >> THEN out2 ELSE Placeholder

-----------------------------------------------------------------------------
(* handleTool up to the call of execJust *)

\* what handleTool does before it awaits: it throws, or it calls execJust
ThrowPlan(m) ==
  [kind |-> "throw", message |-> m, args |-> << >>,
   workingDirectory |-> Undefined, timeout |-> Undefined]
ExecPlan(a, w, t) ==
  [kind |-> "exec", message |-> << >>, args |-> a,
   workingDirectory |-> w, timeout |-> t]

RECURSIVE JoinStrings(_)
JoinStrings(a) ==
  IF a = << >> THEN << >>
  ELSE IF Head(a).t = "string" THEN Head(a).v \o JoinStrings(Tail(a))
       ELSE JoinStrings(Tail(a))

StringElements_Joined(a) == IF JoinStrings(a) = << >> THEN << >> ELSE <<JoinStrings(a)>>

RECURSIVE StringElements(_)
\* args.args.filter(a => typeof a === "string")
StringElements(a) ==
  IF a = << >> THEN << >>
  ELSE IF Head(a).t = "string" THEN <<Head(a).v>> \o StringElements(Tail(a))
       ELSE StringElements(Tail(a))

UnknownTool_NoName(name) == <<"Unknown tool">>

\* `Unknown tool: ${name}`
UnknownTool(name) == <<"Unknown tool: ", name>>

handleTool_NoValidation(name, bag) ==
  LET workingDir == IF bag.working_directory.t = "string"
                    THEN bag.working_directory ELSE Undefined
      justfile == IF bag.justfile.t = "string" THEN bag.justfile ELSE Undefined
      baseArgs == getBaseArgs(justfile)
      tm == IF bag.timeout.t = "number" THEN bag.timeout ELSE Num(DEFAULT_TIMEOUT)
      extra == IF bag.args.t = "array" THEN StringElements(bag.args.v) ELSE << >>
      rv == IF bag.recipe.t = "string" THEN bag.recipe.v ELSE << >>
  IN CASE name = "list" -> ExecPlan(baseArgs \o <<ListFlag>>, workingDir, Undefined)
       [] name = "run" -> ExecPlan(baseArgs \o <<rv>> \o extra, workingDir, tm)
       [] name = "show" -> ExecPlan(baseArgs \o <<ShowFlag, rv>>, workingDir, Undefined)
       [] OTHER -> ThrowPlan(UnknownTool(name))

handleTool(name, bag) ==
  LET workingDir == IF bag.working_directory.t = "string"
                    THEN bag.working_directory ELSE Undefined
      justfile == IF bag.justfile.t = "string" THEN bag.justfile ELSE Undefined
      baseArgs == getBaseArgs(justfile)
      recipe == validateRecipeName(bag.recipe)
      tm == IF bag.timeout.t = "number" THEN bag.timeout ELSE Num(DEFAULT_TIMEOUT)
      extra == IF bag.args.t = "array" THEN StringElements(bag.args.v) ELSE << >>
  IN CASE name = "list" -> ExecPlan(baseArgs \o <<ListFlag>>, workingDir, Undefined)
       [] name = "run" ->
            IF ~recipe.ok THEN ThrowPlan(recipe.message)
            ELSE ExecPlan(baseArgs \o <<recipe.value>> \o extra, workingDir, tm)
       [] name = "show" ->
            IF ~recipe.ok THEN ThrowPlan(recipe.message)
            ELSE ExecPlan(baseArgs \o <<ShowFlag, recipe.value>>, workingDir, Undefined)
       [] OTHER -> ThrowPlan(UnknownTool(name))

\* cwd: workingDirectory || process.cwd()
SpawnCwd(workingDirectory) ==
  IF Truthy(workingDirectory) THEN workingDirectory.v ELSE ProcessCwd

TimerDelay_Truthy(t) == IF Truthy(t) THEN t.v ELSE DEFAULT_TIMEOUT

\* timeout: number = DEFAULT_TIMEOUT
TimerDelay(t) == IF t.t = "undefined" THEN DEFAULT_TIMEOUT ELSE t.v

-----------------------------------------------------------------------------
(* The request handler and execJust as a state machine *)

\* request slots: each holds one CallTool request and its execJust invocation
Slots == {1}

NoReq == [set |-> FALSE, name |-> "", bag |-> << >>]
NoOutcome == [set |-> FALSE, stdout |-> << >>, stderr |-> << >>, exitCode |-> 0]
NoResp == [set |-> FALSE, text |-> << >>, isError |-> "absent"]

\* { content: [{ type: "text", text: result }] }
SuccessResponse(text) == [set |-> TRUE, text |-> text, isError |-> "absent"]
\* { content: [{ type: "text", text: `Error: ${message}` }], isError: true }
FailureResponse(message) ==
  [set |-> TRUE, text |-> <<"Error: ">> \o message, isError |-> "true"]

Outcome(o, e, c) == [set |-> TRUE, stdout |-> o, stderr |-> e, exitCode |-> c]

\* exit status given to the 'close' listener: a number, or null
Code(n) == [null |-> FALSE, n |-> n]
NullCode == [null |-> TRUE, n |-> 0]
OrOne_Or124(code) == IF code.null THEN 124 ELSE code.n

OrOne_Truthy(code) == IF code.null \/ code.n = 0 THEN 1 ELSE code.n

\* code ?? 1
OrOne(code) == IF code.null THEN 1 ELSE code.n

TimeoutMarker == <<Newline, "[Process timed out]">>
TIMEOUT_EXIT == 124

\* errno given as exit status when the executable could not be started
SpawnErrno == 0 - 2
SpawnErrorMessage == <<"spawn just ENOENT">>
KillErrorMessage == <<"kill EPERM">>

\* the argument of the 'close' listener, once it has been called
NoStatus == [seen |-> FALSE, code |-> NullCode]
Status(code) == [seen |-> TRUE, code |-> code]

\* one 'data' event: the stream it came from and its chunk
Arrival(stream, chunk) == [stream |-> stream, chunk |-> chunk]

\* the catch clause of the request handler
OnThrow_NoCatch(message) == [pc |-> "uncaught", resp |-> NoResp]

OnThrow(message) == [pc |-> "returned", resp |-> FailureResponse(message)]

\* return formatResult(result) in handleTool, wrapped by the request handler
OnResult_FailOnNonzero(result) ==
  IF result.exitCode # 0
  THEN FailureResponse(formatResult(result))
  ELSE SuccessResponse(formatResult(result))

OnResult(result) == SuccessResponse(formatResult(result))

CloseOutcome_Inverted(i, code) ==
  IF ~timedOut[i]
  THEN Outcome(stdout[i], stderr[i] \o TimeoutMarker, TIMEOUT_EXIT)
  ELSE Outcome(stdout[i], stderr[i], OrOne(code))

\* the 'close' listener's argument to resolve
CloseOutcome(i, code) ==
  IF timedOut[i]
  THEN Outcome(stdout[i], stderr[i] \o TimeoutMarker, TIMEOUT_EXIT)
  ELSE Outcome(stdout[i], stderr[i], OrOne(code))

\* the 'error' listener's argument to resolve
ErrorOutcome_Code0(message) == Outcome(<< >>, message, 0)

ErrorOutcome(message) == Outcome(<< >>, message, 1)

Resolve_Overwrite(i, o) == o

\* resolve: only the first call settles the promise
Resolve(i, o) == IF outcome[i].set THEN outcome[i] ELSE o

ClearTimeout_Noop(i) == timer[i]

\* clearTimeout(timer)
ClearTimeout(i) == IF timer[i] = "pending" THEN "cleared" ELSE timer[i]

ExecInit ==
  /\ req = [i \in Slots |-> NoReq]
  /\ pc = [i \in Slots |-> "idle"]
  /\ argv = [i \in Slots |-> << >>]
  /\ cwd = [i \in Slots |-> << >>]
  /\ timeout = [i \in Slots |-> 0]
  /\ stdout = [i \in Slots |-> << >>]
  /\ stderr = [i \in Slots |-> << >>]
  /\ timedOut = [i \in Slots |-> FALSE]
  /\ timer = [i \in Slots |-> "none"]
  /\ proc = [i \in Slots |-> "none"]
  /\ sigterms = [i \in Slots |-> 0]
  /\ outcome = [i \in Slots |-> NoOutcome]
  /\ resp = [i \in Slots |-> NoResp]
  /\ arrived = [i \in Slots |-> << >>]
  /\ status = [i \in Slots |-> NoStatus]

\* The CallTool request handler up to its first suspension: handleTool runs
\* until it throws (caught by the handler) or until execJust has spawned the
\* process, armed the timer and registered its listeners.
CallTool(i, name, bag) ==
  /\ pc[i] = "idle"
  /\ req' = [req EXCEPT ![i] = [set |-> TRUE, name |-> name, bag |-> bag]]
  /\ LET plan == handleTool(name, bag)
     IN IF plan.kind = "throw"
        THEN /\ pc' = [pc EXCEPT ![i] = OnThrow(plan.message).pc]
             /\ resp' = [resp EXCEPT ![i] = OnThrow(plan.message).resp]
             /\ UNCHANGED <<argv, cwd, timeout, stdout, stderr, timedOut, timer,
                            proc, sigterms, outcome>>
        ELSE /\ pc' = [pc EXCEPT ![i] = "await"]
             /\ argv' = [argv EXCEPT ![i] = plan.args]
             /\ cwd' = [cwd EXCEPT ![i] = SpawnCwd(plan.workingDirectory)]
             /\ timeout' = [timeout EXCEPT ![i] = TimerDelay(plan.timeout)]
             /\ stdout' = [stdout EXCEPT ![i] = << >>]
             /\ stderr' = [stderr EXCEPT ![i] = << >>]
             /\ timedOut' = [timedOut EXCEPT ![i] = FALSE]
             /\ timer' = [timer EXCEPT ![i] = "pending"]
             /\ \E started \in BOOLEAN :
                  proc' = [proc EXCEPT ![i] = IF started THEN "running" ELSE "spawnfail"]
             /\ UNCHANGED <<sigterms, outcome, resp>>
  /\ UNCHANGED <<arrived, status, pin, pout>>

StdoutData_Prepend(i, chunk) ==
  /\ proc[i] = "running"
  /\ Len(stdout[i]) < MaxChunks
  /\ stdout' = [stdout EXCEPT ![i] = chunk \o @]
  /\ arrived' = [arrived EXCEPT ![i] = Append(@, Arrival("stdout", chunk))]
  /\ UNCHANGED <<req, pc, argv, cwd, timeout, stderr, timedOut, timer, proc,
                 sigterms, outcome, resp, status, pin, pout>>

\* proc.stdout.on("data", ...)
StdoutData(i, chunk) ==
  /\ proc[i] = "running"
  /\ Len(stdout[i]) < MaxChunks
  /\ stdout' = [stdout EXCEPT ![i] = @ \o chunk]
  /\ arrived' = [arrived EXCEPT ![i] = Append(@, Arrival("stdout", chunk))]
  /\ UNCHANGED <<req, pc, argv, cwd, timeout, stderr, timedOut, timer, proc,
                 sigterms, outcome, resp, status, pin, pout>>

\* proc.stderr.on("data", ...)
StderrData(i, chunk) ==
  /\ proc[i] = "running"
  /\ Len(stderr[i]) < MaxChunks
  /\ stderr' = [stderr EXCEPT ![i] = @ \o chunk]
  /\ arrived' = [arrived EXCEPT ![i] = Append(@, Arrival("stderr", chunk))]
  /\ UNCHANGED <<req, pc, argv, cwd, timeout, stdout, timedOut, timer, proc,
                 sigterms, outcome, resp, status, pin, pout>>

TimerFire_NoKill(i, delivered) ==
  /\ timer[i] = "pending"
  /\ timer' = [timer EXCEPT ![i] = "fired"]
  /\ timedOut' = [timedOut EXCEPT ![i] = TRUE]
  /\ delivered
  /\ UNCHANGED <<req, pc, argv, cwd, timeout, stdout, stderr, proc, resp,
                 sigterms, outcome, arrived, status, pin, pout>>

TimerFire_SharedFlag(i, delivered) ==
  /\ timer[i] = "pending"
  /\ timer' = [timer EXCEPT ![i] = "fired"]
  /\ timedOut' = [j \in DOMAIN timedOut |-> TRUE]
  /\ IF proc[i] = "running"
     THEN IF delivered
          THEN /\ sigterms' = [sigterms EXCEPT ![i] = @ + 1]
               /\ UNCHANGED outcome
          ELSE /\ outcome' = [outcome EXCEPT ![i] = Resolve(i, ErrorOutcome(KillErrorMessage))]
               /\ UNCHANGED sigterms
     ELSE /\ delivered
          /\ UNCHANGED <<sigterms, outcome>>
  /\ UNCHANGED <<req, pc, argv, cwd, timeout, stdout, stderr, proc, resp,
                 arrived, status, pin, pout>>

TimerFire_Interval(i, delivered) ==
  /\ timer[i] = "pending"
  /\ timedOut' = [timedOut EXCEPT ![i] = TRUE]
  /\ IF proc[i] = "running"
     THEN IF delivered
          THEN /\ sigterms' = [sigterms EXCEPT ![i] = @ + 1]
               /\ UNCHANGED outcome
          ELSE /\ outcome' = [outcome EXCEPT ![i] = Resolve(i, ErrorOutcome(KillErrorMessage))]
               /\ UNCHANGED sigterms
     ELSE /\ delivered
          /\ UNCHANGED <<sigterms, outcome>>
  /\ UNCHANGED <<req, pc, argv, cwd, timeout, stdout, stderr, proc, resp, timer,
                 arrived, status, pin, pout>>

\* The setTimeout callback.  proc.kill delivers SIGTERM to a running child;
\* when the signal cannot be delivered kill emits 'error', whose listener
\* runs inside the call; on a child that never started kill does nothing.
TimerFire(i, delivered) ==
  /\ timer[i] = "pending"
  /\ timer' = [timer EXCEPT ![i] = "fired"]
  /\ timedOut' = [timedOut EXCEPT ![i] = TRUE]
  /\ IF proc[i] = "running"
     THEN IF delivered
          THEN /\ sigterms' = [sigterms EXCEPT ![i] = @ + 1]
               /\ UNCHANGED outcome
          ELSE /\ outcome' = [outcome EXCEPT ![i] = Resolve(i, ErrorOutcome(KillErrorMessage))]
               /\ UNCHANGED sigterms
     ELSE /\ delivered
          /\ UNCHANGED <<sigterms, outcome>>
  /\ UNCHANGED <<req, pc, argv, cwd, timeout, stdout, stderr, proc, resp,
                 arrived, status, pin, pout>>

\* proc.on("close", ...)
ProcClose(i, code) ==
  /\ \/ proc[i] = "running" /\ (code.null \/ code.n >= 0)
     \/ proc[i] = "failed" /\ code = Code(SpawnErrno)
  /\ proc' = [proc EXCEPT ![i] = IF proc[i] = "running" THEN "closed" ELSE "reaped"]
  /\ timer' = [timer EXCEPT ![i] = ClearTimeout(i)]
  /\ outcome' = [outcome EXCEPT ![i] = Resolve(i, CloseOutcome(i, code))]
  /\ status' = [status EXCEPT ![i] = Status(code)]
  /\ UNCHANGED <<req, pc, argv, cwd, timeout, stdout, stderr, timedOut,
                 sigterms, resp, arrived, pin, pout>>

\* proc.on("error", ...) for an executable that could not be started
ProcError(i) ==
  /\ proc[i] = "spawnfail"
  /\ proc' = [proc EXCEPT ![i] = "failed"]
  /\ timer' = [timer EXCEPT ![i] = ClearTimeout(i)]
  /\ outcome' = [outcome EXCEPT ![i] = Resolve(i, ErrorOutcome(SpawnErrorMessage))]
  /\ UNCHANGED <<req, pc, argv, cwd, timeout, stdout, stderr, timedOut,
                 sigterms, resp, arrived, status, pin, pout>>

\* handleTool resumes after await execJust(...) and the handler returns
Resume(i) ==
  /\ pc[i] = "await"
  /\ outcome[i].set
  /\ pc' = [pc EXCEPT ![i] = "returned"]
  /\ resp' = [resp EXCEPT ![i] = OnResult(outcome[i])]
  /\ UNCHANGED <<req, argv, cwd, timeout, stdout, stderr, timedOut, timer, proc,
                 sigterms, outcome, arrived, status, pin, pout>>

-----------------------------------------------------------------------------
(* Inputs *)

\* strings of at most n characters over the set c
StringsUpTo(c, n) == UNION {[1..k -> c] : k \in 0..n}

Build == <<"b", "u", "i", "l", "d">>
Release == <<"-", "-", "r">>
Repo == <<"/", "r">>

ToolNames == {"list", "run", "show", "delete"}

\* requests of the state machine
ReqRecipes == {Undefined, Str(Build), Str(<<"-", "a">>), Str(<<"a", "/">>)}
ReqBags ==
  [recipe : ReqRecipes,
   args : {Undefined, Arr(<<Str(Release)>>)},
   working_directory : {Undefined, Str(Repo)},
   justfile : {Undefined, Str(<<"j">>)},
   timeout : {Undefined, Num(5)}]

\* one chunk of subprocess output per stream
OutChunks == {<<"o">>}
ErrChunks == {<<"e">>}

\* exit statuses a child can be closed with
CloseCodes == {Code(0), Code(2), Code(TIMEOUT_EXIT), NullCode, Code(SpawnErrno)}

Init ==
  /\ ExecInit
  /\ pin = << >>
  /\ pout = << >>

Next ==
  \E i \in Slots :
    \/ \E name \in ToolNames, bag \in ReqBags : CallTool(i, name, bag)
    \/ \E chunk \in OutChunks : StdoutData(i, chunk)
    \/ \E chunk \in ErrChunks : StderrData(i, chunk)
    \/ \E delivered \in BOOLEAN : TimerFire(i, delivered)
    \/ \E code \in CloseCodes : ProcClose(i, code)
    \/ ProcError(i)
    \/ Resume(i)

Spec == Init /\ [][Next]_vars

\* Scheduling of the event loop: an armed timer fires unless it is cleared,
\* the 'error' of a failed spawn is emitted, and a settled promise resumes
\* the handler.  Nothing makes a child close.
Fairness ==
  \A i \in Slots :
    /\ WF_vars(\E delivered \in BOOLEAN : TimerFire(i, delivered))
    /\ WF_vars(ProcError(i))
    /\ WF_vars(Resume(i))

SpecLive == Init /\ [][Next]_vars /\ Fairness

-----------------------------------------------------------------------------
(* validateRecipeName on its own *)

InputChars == {"a", "Z", "0", "_", "-", " ", "\n", "/"}

RecipeInputs ==
  {Str(x) : x \in StringsUpTo(InputChars, MaxLen)} \cup {Undefined, Num(0), Num(7)}

InitValidate ==
  /\ ExecInit
  /\ pin \in RecipeInputs
  /\ pout = [done |-> FALSE, r |-> Thrown(<< >>)]

DoValidate ==
  /\ ~pout.done
  /\ pout' = [done |-> TRUE, r |-> validateRecipeName(pin)]
  /\ UNCHANGED <<pin, execVars>>

NextValidate == DoValidate

SpecValidate == InitValidate /\ [][NextValidate]_vars

-----------------------------------------------------------------------------
(* formatResult on its own *)

FormatInputs ==
  {Outcome(o, e, c) : o \in StringsUpTo({"x", Newline}, MaxChunks),
                      e \in StringsUpTo({"y", Newline}, MaxChunks),
                      c \in {0, 1, 2, TIMEOUT_EXIT}}

InitFormat ==
  /\ ExecInit
  /\ pin \in FormatInputs
  /\ pout = [done |-> FALSE, r |-> << >>]

DoFormat ==
  /\ ~pout.done
  /\ pout' = [done |-> TRUE, r |-> formatResult(pin)]
  /\ UNCHANGED <<pin, execVars>>

NextFormat == DoFormat

SpecFormat == InitFormat /\ [][NextFormat]_vars

-----------------------------------------------------------------------------
(* handleTool's translation of a request into a spawn on its own *)

ArgElements == {Str(Release), Str(<<"x">>), Num(3)}

TranslateBags ==
  [recipe : {Undefined, Str(Build), Str(<<"a", "_">>), Str(<<"-", "a">>), Str(<<"a", " ">>)},
   args : {Undefined, Str(<<"x">>)} \cup {Arr(a) : a \in StringsUpTo(ArgElements, MaxArgs)},
   working_directory : {Undefined, Str(Repo), Str(<< >>), Num(0)},
   justfile : {Undefined, Str(<<"j">>), Str(<< >>), Num(1)},
   timeout : {Undefined, Num(5), Num(0), Str(<<"5">>)}]

InitTranslate ==
  /\ ExecInit
  /\ pin \in [name : ToolNames, bag : TranslateBags]
  /\ pout = [done |-> FALSE, plan |-> ThrowPlan(<< >>), cwd |-> << >>, delay |-> 0]

DoTranslate ==
  /\ ~pout.done
  /\ LET plan == handleTool(pin.name, pin.bag)
     IN pout' = [done |-> TRUE, plan |-> plan,
                 cwd |-> IF plan.kind = "exec" THEN SpawnCwd(plan.workingDirectory) ELSE << >>,
                 delay |-> IF plan.kind = "exec" THEN TimerDelay(plan.timeout) ELSE 0]
  /\ UNCHANGED <<pin, execVars>>

NextTranslate == DoTranslate

SpecTranslate == InitTranslate /\ [][NextTranslate]_vars

-----------------------------------------------------------------------------
(* execJust with children that write different chunks to each stream *)

EmptyBag ==
  [recipe |-> Undefined, args |-> Undefined, working_directory |-> Undefined,
   justfile |-> Undefined, timeout |-> Undefined]

StreamOutChunks == {<<"o">>, <<"p">>}
StreamErrChunks == {<<"e">>, <<"f">>}

NextStreams ==
  \E i \in Slots :
    \/ CallTool(i, "list", EmptyBag)
    \/ \E chunk \in StreamOutChunks : StdoutData(i, chunk)
    \/ \E chunk \in StreamErrChunks : StderrData(i, chunk)
    \/ \E delivered \in BOOLEAN : TimerFire(i, delivered)
    \/ \E code \in CloseCodes : ProcClose(i, code)
    \/ ProcError(i)
    \/ Resume(i)

SpecStreams == Init /\ [][NextStreams]_vars

-----------------------------------------------------------------------------
(* Two requests in flight at the same time *)

ConcSlots == {1, 2}

\* the chunk the child of slot i writes to each stream
OwnOut(i) == IF i = 1 THEN <<"o1">> ELSE <<"o2">>
OwnErr(i) == IF i = 1 THEN <<"e1">> ELSE <<"e2">>

\* exit statuses of the children of concurrent requests
ConcCloseCodes == {Code(0), NullCode, Code(SpawnErrno)}

InitConc ==
  /\ req = [i \in ConcSlots |-> NoReq]
  /\ pc = [i \in ConcSlots |-> "idle"]
  /\ argv = [i \in ConcSlots |-> << >>]
  /\ cwd = [i \in ConcSlots |-> << >>]
  /\ timeout = [i \in ConcSlots |-> 0]
  /\ stdout = [i \in ConcSlots |-> << >>]
  /\ stderr = [i \in ConcSlots |-> << >>]
  /\ timedOut = [i \in ConcSlots |-> FALSE]
  /\ timer = [i \in ConcSlots |-> "none"]
  /\ proc = [i \in ConcSlots |-> "none"]
  /\ sigterms = [i \in ConcSlots |-> 0]
  /\ outcome = [i \in ConcSlots |-> NoOutcome]
  /\ resp = [i \in ConcSlots |-> NoResp]
  /\ arrived = [i \in ConcSlots |-> << >>]
  /\ status = [i \in ConcSlots |-> NoStatus]
  /\ pin = << >>
  /\ pout = << >>

NextConc ==
  \E i \in ConcSlots :
    \/ CallTool(i, "list", EmptyBag)
    \/ StdoutData(i, OwnOut(i))
    \/ StderrData(i, OwnErr(i))
    \/ \E delivered \in BOOLEAN : TimerFire(i, delivered)
    \/ \E code \in ConcCloseCodes : ProcClose(i, code)
    \/ ProcError(i)
    \/ Resume(i)

SpecConc == InitConc /\ [][NextConc]_vars

-----------------------------------------------------------------------------
(* Properties *)

KnownTools == {"list", "run", "show"}

\* s ends with the pieces of m
EndsWith(s, m) ==
  Len(s) >= Len(m) /\ SubSeq(s, Len(s) - Len(m) + 1, Len(s)) = m

\* the child of slot i was running when the timer fired
FiredWhileRunning(i) == timedOut[i] /\ proc[i] \in {"running", "closed"}

\* C1 (Spec): when the timeout timer fires while the child is still running,
\* the delivered outcome has exitCode 124, its stderr is the captured stderr
\* followed by "\n[Process timed out]" and the captured stdout is kept,
\* whatever event follows the timer.
C1_TimeoutOutcome ==
  \A i \in Slots :
    (FiredWhileRunning(i) /\ outcome[i].set) =>
      /\ outcome[i].exitCode = 124
      /\ EndsWith(outcome[i].stderr, <<"\n", "[Process timed out]">>)
      /\ proc[i] = "closed" =>
           /\ outcome[i].stdout = stdout[i]
           /\ outcome[i].stderr = stderr[i] \o <<"\n", "[Process timed out]">>

\* a response has one of the two shapes
SuccessShape(r) == r.set /\ r.isError = "absent"
FailureShape(r) == r.set /\ r.isError = "true" /\ Len(r.text) >= 1 /\ r.text[1] = "Error: "

\* C2 (Spec): the request handler never lets an error escape, and what it
\* returns is one Response of exactly one shape: success {text} without
\* isError, or failure {text: "Error: <message>", isError: true}.
C2_DispatchNeverThrows ==
  \A i \in Slots :
    /\ pc[i] \in {"idle", "await", "returned"}
    /\ resp[i].set <=> pc[i] = "returned"
    /\ resp[i].set => (SuccessShape(resp[i]) /\ ~FailureShape(resp[i]))
                        \/ (FailureShape(resp[i]) /\ ~SuccessShape(resp[i]))
    /\ (pc[i] = "returned" /\ ~outcome[i].set) => FailureShape(resp[i])

C2_Witness ==
  \E i \in Slots :
    /\ req[i].name = "run" /\ req[i].bag.recipe = Undefined
    /\ pc[i] = "returned" /\ FailureShape(resp[i])

\* the recipe of a request is accepted
RecipeAccepted(r) ==
  /\ r.t = "string"
  /\ r.v # << >>
  /\ r.v[1] # "-"
  /\ \A k \in 1..Len(r.v) : r.v[k] \in RecipeChars

\* the request of slot i failed recipe validation or named an unknown tool
Rejected(i) ==
  \/ req[i].name \notin KnownTools
  \/ req[i].name \in {"run", "show"} /\ ~RecipeAccepted(req[i].bag.recipe)

\* C3 (Spec): isError is set on a Response iff the request failed recipe
\* validation or named an unknown operation; a nonzero exit code, a timeout
\* and a spawn failure give a success-shaped Response whose text is the
\* formatted outcome.
C3_FailureFlag ==
  \A i \in Slots :
    resp[i].set =>
      /\ resp[i].isError = "true" <=> Rejected(i)
      /\ outcome[i].set =>
           /\ resp[i].isError = "absent"
           /\ resp[i].text = formatResult(outcome[i])

C3_Witness ==
  \E i \in Slots :
    /\ resp[i].set /\ resp[i].isError = "absent"
    /\ outcome[i].set /\ outcome[i].exitCode = 124 /\ timedOut[i]

\* number of base tokens in front of the operation-specific tokens
BaseLen(a) == IF Len(a) >= 3 /\ a[2] = <<"--justfile">> THEN 3 ELSE 1

\* the recipe token of a spawned run or show
RecipeToken(name, a) ==
  IF name = "run" THEN a[BaseLen(a) + 1] ELSE a[BaseLen(a) + 2]

SafeToken(tok) ==
  /\ tok # << >>
  /\ tok[1] # "-"
  /\ \A k \in 1..Len(tok) : tok[k] \in RecipeChars

\* C4 (Spec): for run and show a request with an invalid recipe gets a
\* failure Response with the validation message and no process is spawned;
\* every spawned run/show has a recipe token that is non-empty, does not
\* start with '-' and has only characters of [a-zA-Z0-9_-].
C4_ValidateBeforeSpawn ==
  \A i \in Slots :
    (req[i].set /\ req[i].name \in {"run", "show"}) =>
      /\ ~RecipeAccepted(req[i].bag.recipe) =>
           /\ proc[i] = "none" /\ timer[i] = "none" /\ argv[i] = << >>
           /\ resp[i].set /\ resp[i].isError = "true"
           /\ resp[i].text \in
                {<<"Error: ", "Recipe name must be a non-empty string">>,
                 <<"Error: ", "Recipe name cannot start with '-'">>,
                 <<"Error: ", "Recipe name contains invalid characters">>}
           /\ ~validateRecipeName(req[i].bag.recipe).ok
           /\ resp[i].text = <<"Error: ">> \o validateRecipeName(req[i].bag.recipe).message
      /\ proc[i] # "none" => SafeToken(RecipeToken(req[i].name, argv[i]))

C4_Witness ==
  \E i \in Slots :
    /\ req[i].set /\ req[i].name = "run" /\ req[i].bag.recipe = Str(<<"-", "a">>)
    /\ resp[i].text = <<"Error: ", "Recipe name cannot start with '-'">>
    /\ proc[i] = "none"

\* C5 (Spec): an operation name outside {list, run, show} gets the failure
\* Response "Error: Unknown tool: <name>" with isError true, whatever the
\* argument bag, and no process is spawned.
C5_UnknownTool ==
  \A i \in Slots :
    (req[i].set /\ req[i].name \notin KnownTools) =>
      /\ resp[i] = [set |-> TRUE, isError |-> "true",
                    text |-> <<"Error: ", "Unknown tool: ", req[i].name>>]
      /\ pc[i] = "returned"
      /\ proc[i] = "none" /\ timer[i] = "none" /\ argv[i] = << >>

C5_Witness ==
  \E i \in Slots :
    /\ req[i].set /\ req[i].name = "delete" /\ req[i].bag.recipe = Str(Build)
    /\ resp[i].text = <<"Error: ", "Unknown tool: ", "delete">>

\* C6 (SpecValidate): validateRecipeName(S) returns S unchanged iff S is a
\* string that is non-empty, does not start with '-' and has only characters
\* of [A-Za-z0-9_-]; for every other value it throws one of its errors.
C6_ValidateIff ==
  pout.done =>
    /\ RecipeAccepted(pin) => pout.r = [ok |-> TRUE, value |-> pin.v, message |-> << >>]
    /\ ~RecipeAccepted(pin) =>
         /\ ~pout.r.ok
         /\ pout.r.message \in
              {<<"Recipe name must be a non-empty string">>,
               <<"Recipe name cannot start with '-'">>,
               <<"Recipe name contains invalid characters">>}

C6_Witness ==
  /\ pout.done
  /\ pin = Str(<<"-", "a">>)
  /\ ~pout.r.ok

\* C7 (Spec): when the executable cannot be started, execJust resolves to
\* an outcome with exitCode 1, stderr the error's message and empty stdout,
\* and the handler returns it as a success-shaped Response.
C7_SpawnFailureFolded ==
  \A i \in Slots :
    proc[i] \in {"failed", "reaped"} =>
      /\ outcome[i] = [set |-> TRUE, stdout |-> << >>,
                       stderr |-> SpawnErrorMessage, exitCode |-> 1]
      /\ pc[i] \in {"await", "returned"}
      /\ pc[i] = "returned" =>
           resp[i] = [set |-> TRUE, isError |-> "absent",
                      text |-> SpawnErrorMessage \o <<"\n", "[Exit code: ", "1", "]">>]

C7_Witness ==
  \E i \in Slots :
    /\ proc[i] = "reaped" /\ pc[i] = "returned"
    /\ outcome[i].exitCode = 1 /\ outcome[i].stderr = SpawnErrorMessage

\* C8 (SpecFormat): formatResult gives stdout, then stderr when it is not
\* empty (after one newline only if stdout is not empty), then
\* "\n[Exit code: N]" iff N is not 0; the placeholder replaces that text
\* exactly when it is empty (stdout and stderr empty, exit code 0).
C8_FormatRule ==
  pout.done =>
    LET sep == IF pin.stdout # << >> /\ pin.stderr # << >> THEN <<"\n">> ELSE << >>
        mark == IF pin.exitCode = 0 THEN << >>
                ELSE <<"\n", "[Exit code: ", ToString(pin.exitCode), "]">>
        text == pin.stdout \o sep \o pin.stderr \o mark
        empty == pin.stdout = << >> /\ pin.stderr = << >> /\ pin.exitCode = 0
    IN /\ empty <=> text = << >>
       /\ empty => pout.r = <<"Command completed successfully">>
       /\ ~empty => pout.r = text
       /\ pin.exitCode # 0 <=> EndsWith(pout.r, <<"[Exit code: ", ToString(pin.exitCode), "]">>)

C8_Witness ==
  /\ pout.done
  /\ pin.stdout = <<"x">> /\ pin.stderr = <<"y">> /\ pin.exitCode = 0
  /\ pout.r = <<"x", "\n", "y">>

\* C9 as stated (SpecTranslate): every spawned argument vector starts with
\* "--color=never"; whenever justfile is a string the next two tokens are
\* "--justfile" and that string; when it is absent or not a string no
\* "--justfile" token is added and the request does not fail because of it.
C9_BaseArgsAnyString ==
  (pout.done /\ pout.plan.kind = "exec") =>
    LET a == pout.plan.args
        jf == pin.bag.justfile
    IN /\ a[1] = <<"--color=never">>
       /\ jf.t = "string" =>
            Len(a) >= 3 /\ a[2] = <<"--justfile">> /\ a[3] = jf.v
       /\ jf.t # "string" => \A k \in 1..Len(a) : a[k] # <<"--justfile">>

\* C9 amended (SpecTranslate): every spawned argument vector starts with
\* "--color=never"; whenever justfile is a non-empty string the next two
\* tokens are "--justfile" and that string, before the operation-specific
\* tokens; when it is absent, not a string or the empty string no
\* "--justfile" token is added; the justfile field never makes a request fail.
C9_BaseArgs ==
  pout.done =>
    LET a == pout.plan.args
        jf == pin.bag.justfile
        given == jf.t = "string" /\ jf.v # << >>
    IN /\ pout.plan.kind = handleTool(pin.name, [pin.bag EXCEPT !.justfile = Undefined]).kind
       /\ pout.plan.kind = "exec" =>
            /\ a[1] = <<"--color=never">>
            /\ given => Len(a) >= 4 /\ a[2] = <<"--justfile">> /\ a[3] = jf.v
            /\ ~given => \A k \in 1..Len(a) : a[k] # <<"--justfile">>

C9_Witness ==
  /\ pout.done /\ pout.plan.kind = "exec"
  /\ pin.name = "show" /\ pin.bag.justfile = Str(<<"j">>)
  /\ pout.plan.args = <<<<"--color=never">>, <<"--justfile">>, <<"j">>, <<"--show">>, Build>>

\* the string elements of a sequence of values, in order
StringsOf(a) ==
  LET sel == SelectSeq(a, LAMBDA x : x.t = "string")
  IN [k \in 1..Len(sel) |-> sel[k].v]

\* C10 (SpecTranslate): after the base tokens the argument vector is
\* ["--list"] for list, ["--show", recipe] for show, and for run the recipe
\* followed by the string elements of args in their order, one token each,
\* nothing when args is not an array.
C10_OperationTail ==
  (pout.done /\ pout.plan.kind = "exec") =>
    LET a == pout.plan.args
        tail == SubSeq(a, BaseLen(a) + 1, Len(a))
        extra == IF pin.bag.args.t = "array" THEN StringsOf(pin.bag.args.v) ELSE << >>
    IN /\ pin.name = "list" => tail = <<<<"--list">>>>
       /\ pin.name = "show" => tail = <<<<"--show">>, pin.bag.recipe.v>>
       /\ pin.name = "run" => tail = <<pin.bag.recipe.v>> \o extra
       /\ pin.name \in KnownTools

C10_Witness ==
  /\ pout.done
  /\ pin.name = "run"
  /\ pin.bag = [recipe |-> Str(Build), args |-> Arr(<<Str(Release)>>),
                working_directory |-> Str(Repo), justfile |-> Undefined,
                timeout |-> Undefined]
  /\ pout.plan.args = <<<<"--color=never">>, Build, Release>>
  /\ pout.cwd = Repo

\* C11 as stated (Spec): a delivered outcome has exitCode 124 only if the
\* timer of its invocation fired before the process closed.
C11_Only124OnTimeout ==
  \A i \in Slots :
    (outcome[i].set /\ outcome[i].exitCode = 124) =>
      timedOut[i] /\ timer[i] = "fired"

\* C11 amended (Spec): a delivered outcome has exitCode 124 only if the
\* timer of its invocation fired before the process closed, or the timer
\* never fired and the child itself closed with exit status 124.
C11_SentinelOrOwnStatus ==
  \A i \in Slots :
    (outcome[i].set /\ outcome[i].exitCode = 124) =>
      \/ timedOut[i] /\ timer[i] = "fired"
      \/ /\ ~timedOut[i] /\ timer[i] # "fired"
         /\ status[i].seen /\ ~status[i].code.null /\ status[i].code.n = 124

C11_Witness ==
  \E i \in Slots :
    /\ outcome[i].set /\ outcome[i].exitCode = 124
    /\ timedOut[i] /\ sigterms[i] = 1 /\ proc[i] = "closed"
    /\ status[i].seen /\ status[i].code.null

\* C12 (Spec): once an invocation has delivered its outcome, through the
\* close path or the error path, its timer is not pending: it has fired or
\* it has been cancelled.
C12_NoDanglingTimer ==
  \A i \in Slots :
    outcome[i].set => timer[i] \in {"fired", "cleared"}

C12_Witness ==
  \E i \in Slots :
    outcome[i].set /\ proc[i] = "failed" /\ timer[i] = "cleared"

C14_OutcomeOnce ==
  [][\A i \in Slots : outcome[i].set => outcome'[i] = outcome[i]]_vars

C14_Witness ==
  \E i \in Slots :
    /\ proc[i] = "reaped" /\ status[i].seen
    /\ outcome[i] = [set |-> TRUE, stdout |-> << >>,
                     stderr |-> SpawnErrorMessage, exitCode |-> 1]

\* C16 (Spec): SIGTERM is sent to a child at most once per invocation,
\* only by the invocation's timer firing, and never after the outcome has
\* been delivered; no later step sends a second or a stronger signal.
C16_SingleSigterm ==
  [][\A i \in Slots :
       /\ sigterms'[i] \in {0, 1}
       /\ sigterms'[i] # sigterms[i] =>
            /\ sigterms[i] = 0
            /\ timer[i] = "pending" /\ timer'[i] = "fired"
            /\ ~timedOut[i] /\ timedOut'[i]
            /\ ~outcome[i].set /\ ~outcome'[i].set
       /\ sigterms[i] = 1 => sigterms'[i] = 1]_vars

C16_Witness ==
  \E i \in Slots :
    /\ sigterms[i] = 1 /\ timer[i] = "fired"
    /\ proc[i] = "running" /\ ~outcome[i].set
    /\ stdout[i] # << >>

\* C18 (Spec): on a close without the timer having fired, the outcome's
\* exitCode is the exit status the process reported, 0 included, and 1 when
\* the status is null.
C18_CloseExitCode ==
  \A i \in Slots :
    (proc[i] = "closed" /\ timer[i] # "fired") =>
      /\ outcome[i].set /\ status[i].seen
      /\ ~status[i].code.null => outcome[i].exitCode = status[i].code.n
      /\ status[i].code.null => outcome[i].exitCode = 1

C18_Witness ==
  \E i \in Slots :
    /\ proc[i] = "closed" /\ timer[i] = "cleared"
    /\ status[i].code = NullCode /\ outcome[i].exitCode = 1

\* C19 (SpecTranslate): a run request arms the timer with its timeout field
\* whenever the field is a number and with 300000 whenever it is absent or
\* not a number; list and show always arm it with 300000.
C19_TimeoutSelection ==
  (pout.done /\ pout.plan.kind = "exec") =>
    LET t == pin.bag.timeout
    IN /\ (pin.name = "run" /\ t.t = "number") => pout.delay = t.v
       /\ (pin.name = "run" /\ t.t # "number") => pout.delay = 300000
       /\ pin.name \in {"list", "show"} => pout.delay = 300000

C19_Witness ==
  /\ pout.done /\ pout.plan.kind = "exec"
  /\ pin.name = "run" /\ pin.bag.timeout = Num(0)
  /\ pout.delay = 0

\* the chunks one stream delivered, concatenated in their arrival order
RECURSIVE ChunksOf(_, _)
ChunksOf(log, stream) ==
  IF log = << >> THEN << >>
  ELSE (IF Head(log).stream = stream THEN Head(log).chunk ELSE << >>)
         \o ChunksOf(Tail(log), stream)

\* the outcome of slot i was delivered by the 'close' listener
DeliveredByClose(i) ==
  proc[i] = "closed" /\ outcome[i].set /\ (~timedOut[i] \/ sigterms[i] = 1)

\* C17 (SpecStreams): in an outcome delivered on the close path stdout is
\* the concatenation of all stdout chunks in arrival order and stderr,
\* before the timeout marker, the concatenation of all stderr chunks in
\* arrival order, for every interleaving of the two streams.
C17_StreamCapture ==
  \A i \in Slots :
    DeliveredByClose(i) =>
      /\ outcome[i].stdout = ChunksOf(arrived[i], "stdout")
      /\ outcome[i].stderr =
           ChunksOf(arrived[i], "stderr")
             \o (IF timedOut[i] THEN <<"\n", "[Process timed out]">> ELSE << >>)

C17_Witness ==
  \E i \in Slots :
    /\ DeliveredByClose(i)
    /\ arrived[i] = <<Arrival("stdout", <<"o">>), Arrival("stderr", <<"f">>),
                      Arrival("stdout", <<"p">>), Arrival("stderr", <<"e">>)>>
    /\ outcome[i].stdout = <<"o", "p">>
    /\ outcome[i].stderr = <<"f", "e">>

\* everything the model keeps for slot i
SlotState(i) ==
  <<req[i], pc[i], argv[i], cwd[i], timeout[i], stdout[i], stderr[i],
    timedOut[i], timer[i], proc[i], sigterms[i], outcome[i], resp[i],
    arrived[i], status[i]>>

\* the outcome slot i delivers in a step, from its own events alone
OwnOutcomes(i) ==
  LET o == ChunksOf(arrived[i], "stdout")
      e == ChunksOf(arrived[i], "stderr")
  IN IF status'[i].seen /\ ~status[i].seen
     THEN IF timer[i] = "fired"
          THEN {[set |-> TRUE, stdout |-> o,
                 stderr |-> e \o <<"\n", "[Process timed out]">>, exitCode |-> 124]}
          ELSE {[set |-> TRUE, stdout |-> o, stderr |-> e,
                 exitCode |-> IF status'[i].code.null THEN 1 ELSE status'[i].code.n]}
     ELSE {[set |-> TRUE, stdout |-> << >>, stderr |-> m, exitCode |-> 1] :
             m \in {SpawnErrorMessage, KillErrorMessage}}

\* C15 (SpecConc): with two invocations in flight, every step changes the
\* state of one invocation only; a timer expiry signals only its own
\* process and marks only its own invocation as timed out; each buffer
\* receives only its own process's data; each outcome is the one its own
\* events give, whatever the other invocation does.
C15_Isolation ==
  [][\A i \in ConcSlots :
       /\ \A j \in ConcSlots \ {i} :
            SlotState(i)' # SlotState(i) => SlotState(j)' = SlotState(j)
       /\ sigterms'[i] # sigterms[i] => timer[i] = "pending" /\ timer'[i] = "fired"
       /\ timedOut'[i] # timedOut[i] => timer[i] = "pending" /\ timer'[i] = "fired"
       /\ stdout'[i] # stdout[i] =>
            stdout'[i] = stdout[i] \o OwnOut(i) /\ stderr'[i] = stderr[i]
       /\ stderr'[i] # stderr[i] =>
            stderr'[i] = stderr[i] \o OwnErr(i) /\ stdout'[i] = stdout[i]
       /\ (~outcome[i].set /\ outcome'[i].set) => outcome'[i] \in OwnOutcomes(i)]_vars

C15_Witness ==
  /\ outcome[1].set /\ outcome[1].exitCode = 124 /\ sigterms[1] = 1
  /\ outcome[1].stdout = <<"o1">>
  /\ outcome[2].set /\ outcome[2].exitCode = 0 /\ sigterms[2] = 0 /\ ~timedOut[2]
  /\ outcome[2].stdout = <<"o2">> /\ outcome[2].stderr = <<"e2">>

\* the child of slot i has been sent SIGTERM and has not closed
SignalledAndOpen(i) == sigterms[i] = 1 /\ proc[i] = "running"

\* C20 (SpecLive): under fair scheduling of timer and process events, an
\* invocation whose child does not stay open for ever after the termination
\* signal delivers an outcome, and its request gets a Response; a child
\* that has closed has delivered the outcome.
C20_EventualResponse ==
  \A i \in Slots :
    /\ []<>(~SignalledAndOpen(i)) =>
         /\ pc[i] = "await" ~> outcome[i].set
         /\ req[i].set ~> resp[i].set
    /\ [](proc[i] \in {"closed", "reaped"} => outcome[i].set)

C20_Witness ==
  \E i \in Slots :
    /\ pc[i] = "returned" /\ resp[i].set
    /\ timedOut[i] /\ sigterms[i] = 1 /\ proc[i] = "closed"
    /\ outcome[i].exitCode = 124

=============================================================================
